---- MODULE Spec2Model ----
(***************************************************************************)
(* Multi-Wallet CLI Manager: the encrypted vault (records file, trash,     *)
(* settings flag, in-memory key ring and session password), the TUI        *)
(* unlock, the WalletConnect session handlers and the local fund-moving    *)
(* operations.                                                             *)
(***************************************************************************)
EXTENDS Integers, Sequences, FiniteSets, TLC

\* ------------------------------------------------------------------------
\* Bounds and input domains
\* ------------------------------------------------------------------------
MaxWallets == 2
MaxTrash == 1
MaxWrongTracked == 3
MaxEvents == 3
MaxLocalTx == 2
MaxReveals == 3

Keys == {"k1", "k2"}
Passwords == {"p1", "p2"}
Names == {"Main", "Alt"}

None == "null"
Fail == "throws"

\* ------------------------------------------------------------------------
\* Cryptographic collaborator (ethers) and record shapes
\* ------------------------------------------------------------------------
AddressOf(k) == <<"0x", k>>

NoData == [key |-> None, pw |-> None]

Encrypt(k, password) == [key |-> k, pw |-> password]

FromEncryptedJson(data, password) ==
    IF data.pw # None /\ data.pw = password THEN data.key ELSE Fail

NewWallet(privateKey) == IF privateKey \in Keys THEN privateKey ELSE Fail

EncRec(n, k, password) == [name |-> n, data |-> Encrypt(k, password), privateKey |-> None]

PlainRec(n, k) == [name |-> n, data |-> NoData, privateKey |-> k]

IsPlain(w) == w.privateKey # None

Range(s) == {s[i] : i \in DOMAIN s}

RemoveAt(s, i) == SubSeq(s, 1, i - 1) \o SubSeq(s, i + 1, Len(s))

NoFile == [exists |-> FALSE, recs |-> <<>>, parses |-> TRUE]

File(recs) == [exists |-> TRUE, recs |-> recs, parses |-> TRUE]

\* a file on which JSON.parse throws
Unreadable == [exists |-> TRUE, recs |-> <<>>, parses |-> FALSE]

\* ------------------------------------------------------------------------
\* State
\* ------------------------------------------------------------------------
VARIABLES
    app,                 \* which program runs: "cli", "tui" or "off"
    pc,                  \* where that program waits for the user
    attempts,            \* the attempts counter of initializeWallets
    WALLETS_FILE,        \* my_wallets.json
    TRASH_FILE,          \* trash_wallets.json
    SETTINGS_FILE,       \* encryptionDisabled as persisted in settings.json
    DECRYPTED_WALLETS,   \* the key ring
    SESSION_PASSWORD,    \* the vault password held in memory
    encryptionDisabled,  \* USER_SETTINGS.encryptionDisabled
    pwOrigin,            \* history: which prompt set SESSION_PASSWORD
    encryptOrigin,       \* history: pwOrigin at the last wallet.encrypt call
    plainConfirmed,      \* history: the user twice confirmed plain text
    wrongAttempts,       \* history: failed unlocks of this process
    unlockResult,        \* history: outcome of the last unlock attempt
    signer,              \* connectWallet: key of the wallet bound to the client
    session,             \* the client's session: topic and acknowledgement
    tasks,               \* event handler invocations waiting at a prompt
    nextInv,             \* number of handler invocations started so far
    answers,             \* history: the user's answers, per invocation
    approveLog,          \* history: client.approve calls
    execLog,             \* history: signMessage / signTypedData / sendTransaction
    responses,           \* history: client.respond calls
    events,              \* history: the events delivered to the handlers
    currentWalletIndex,  \* tui.js: the selected wallet
    chainTxs,            \* history: transactions sent by the local operations
    outcome,             \* history: what the last vault operation reported
    backupMethod,        \* USER_SETTINGS.backupMethod, as persisted
    uploaded,            \* history: the privateKey fields of my_wallets.json as
                         \* last handed to a backup
    terminal,            \* history: the prompts of showPrivateKey and what it printed
    inflight             \* saveEncryptedWallet between its read and its write

vaultVars == <<app, pc, attempts, WALLETS_FILE, TRASH_FILE, SETTINGS_FILE,
               DECRYPTED_WALLETS, SESSION_PASSWORD, encryptionDisabled,
               pwOrigin, encryptOrigin, plainConfirmed, wrongAttempts,
               unlockResult>>

sessVars == <<signer, session, tasks, nextInv, answers, approveLog, execLog,
              responses, events>>

fundVars == <<currentWalletIndex, chainTxs>>

ioVars == <<outcome, backupMethod, uploaded>>

extVars == <<terminal, inflight>>

vars == <<vaultVars, sessVars, fundVars, ioVars, extVars>>

\* ------------------------------------------------------------------------
\* Helpers of the vault code
\* ------------------------------------------------------------------------
\* getPassword(confirm): returns the cached password, else the entry (with
\* confirm the prompt repeats until both entries agree, so entry is the
\* value typed twice). kind is the prompt that was shown.
GetPassword(cur, entry) == IF cur # None THEN cur ELSE entry

OriginAfter(cur, curOrigin, kind) == IF cur # None THEN curOrigin ELSE kind

loadWalletsRaw == IF WALLETS_FILE.exists THEN WALLETS_FILE.recs ELSE <<>>

hasEncryptedWallets == WALLETS_FILE.exists /\ Len(WALLETS_FILE.recs) > 0

\* ensureWalletsUnlocked falls through to the operation
Unlocked == DECRYPTED_WALLETS # <<>> \/ (WALLETS_FILE.parses /\ loadWalletsRaw = <<>>)

\* the decrypt loop of initializeWallets: stops at the first record that throws
RECURSIVE DecryptLoop(_, _, _)
DecryptLoop(raw, password, acc) ==
    IF raw = <<>> THEN [ok |-> TRUE, ring |-> acc]
    ELSE LET k == FromEncryptedJson(Head(raw).data, password)
         IN IF k = Fail THEN [ok |-> FALSE, ring |-> acc]
            ELSE DecryptLoop(Tail(raw), password,
                             Append(acc, [name |-> Head(raw).name, key |-> k]))

SessIdle ==
    /\ signer = None
    /\ session = [paired |-> FALSE, topic |-> None, acked |-> FALSE, uri |-> <<>>]
    /\ tasks = {}
    /\ nextInv = 0
    /\ answers = {}
    /\ approveLog = <<>>
    /\ execLog = <<>>
    /\ responses = <<>>
    /\ events = <<>>

FundsIdle ==
    /\ currentWalletIndex = 0
    /\ chainTxs = <<>>

NoUpload == [done |-> FALSE, privateKeys |-> <<>>]

\* what a copy of the file gives its holder: the privateKey field of every
\* record (None on an encrypted record)
Upload(file) == [done |-> TRUE, privateKeys |-> [i \in DOMAIN file.recs |-> file.recs[i].privateKey]]

NoInflight == [busy |-> FALSE, rawWallets |-> <<>>, name |-> None, key |-> None]

IoIdle ==
    /\ outcome = "ok"
    /\ backupMethod = None
    /\ uploaded = NoUpload
    /\ terminal = <<>>
    /\ inflight = NoInflight

\* the operation reports o and makes no backup
Reports(o) ==
    /\ outcome' = o
    /\ UNCHANGED <<backupMethod, uploaded>>
    /\ UNCHANGED extVars

\* triggerBackup(settings): my_wallets.json, when it exists, is handed to
\* rclone copy or to the Drive upload
triggerBackup(method) ==
    uploaded' = IF method # None /\ WALLETS_FILE'.exists THEN Upload(WALLETS_FILE') ELSE uploaded

\* the operation reports o and ends with triggerBackup(USER_SETTINGS)
ReportsAndBacksUp(o) ==
    /\ outcome' = o
    /\ UNCHANGED backupMethod
    /\ UNCHANGED extVars
    /\ triggerBackup(backupMethod)

Init ==
    /\ SessIdle
    /\ FundsIdle
    /\ IoIdle
    /\ app = "cli"
    /\ pc = "menu"
    /\ attempts = 3
    /\ WALLETS_FILE = NoFile
    /\ TRASH_FILE = NoFile
    /\ SETTINGS_FILE = FALSE
    /\ DECRYPTED_WALLETS = <<>>
    /\ SESSION_PASSWORD = None
    /\ encryptionDisabled = FALSE
    /\ pwOrigin = "none"
    /\ encryptOrigin = "none"
    /\ plainConfirmed = FALSE
    /\ wrongAttempts = 0
    /\ unlockResult = "none"

\* process.exit / quit: the in-memory state is gone
Exit ==
    /\ app # "off"
    /\ app' = "off"
    /\ pc' = "off"
    /\ attempts' = 3
    /\ DECRYPTED_WALLETS' = <<>>
    /\ SESSION_PASSWORD' = None
    /\ pwOrigin' = "none"
    /\ unlockResult' = "none"
    /\ encryptOrigin' = "none"
    /\ encryptionDisabled' = FALSE
    /\ wrongAttempts' = 0
    /\ UNCHANGED <<WALLETS_FILE, TRASH_FILE, SETTINGS_FILE, plainConfirmed>>
    /\ UNCHANGED <<sessVars, fundVars>>
    /\ Reports("ok")

Launch(a) ==
    /\ app = "off"
    /\ app' = IF a = "tui" /\ ~WALLETS_FILE.parses THEN "off" ELSE a
    /\ pc' = IF a = "cli" THEN "menu"
             ELSE IF ~WALLETS_FILE.parses THEN "off"
             ELSE IF hasEncryptedWallets THEN "prompt" ELSE "nowallets"
    /\ encryptionDisabled' = SETTINGS_FILE
    /\ UNCHANGED <<attempts, wrongAttempts, WALLETS_FILE, TRASH_FILE, SETTINGS_FILE,
                   DECRYPTED_WALLETS, SESSION_PASSWORD, pwOrigin,
                   encryptOrigin, plainConfirmed, unlockResult>>
    /\ UNCHANGED <<sessVars, fundVars>>
    /\ Reports(IF a = "tui" /\ ~WALLETS_FILE.parses THEN "error" ELSE "ok")

\* ensureEncryptionPreference: the state it leaves behind
EnsurePref(choice, entry) ==
    IF DECRYPTED_WALLETS # <<>> \/ WALLETS_FILE.exists
    THEN [pw |-> SESSION_PASSWORD, origin |-> pwOrigin,
          flag |-> encryptionDisabled, settings |-> SETTINGS_FILE,
          confirmed |-> plainConfirmed]
    ELSE IF choice = "encrypt"
    THEN [pw |-> GetPassword(SESSION_PASSWORD, entry),
          origin |-> OriginAfter(SESSION_PASSWORD, pwOrigin, "double"),
          flag |-> FALSE, settings |-> FALSE, confirmed |-> plainConfirmed]
    ELSE [pw |-> SESSION_PASSWORD, origin |-> pwOrigin,
          flag |-> TRUE, settings |-> TRUE, confirmed |-> TRUE]

\* saveEncryptedWallet(name, wallet), entered with password cur
saveEncryptedWallet(name, k, cur, curOrigin, flag, entry) ==
    LET raw == loadWalletsRaw
        password == GetPassword(cur, entry)
        origin == OriginAfter(cur, curOrigin, "single")
    IN /\ IF flag
          THEN /\ WALLETS_FILE' = File(Append(raw, PlainRec(name, k)))
               /\ SESSION_PASSWORD' = cur
               /\ pwOrigin' = curOrigin
               /\ encryptOrigin' = encryptOrigin
          ELSE /\ WALLETS_FILE' = File(Append(raw, EncRec(name, k, password)))
               /\ SESSION_PASSWORD' = password
               /\ pwOrigin' = origin
               /\ encryptOrigin' = origin
       /\ DECRYPTED_WALLETS' = Append(DECRYPTED_WALLETS, [name |-> name, key |-> k])

UsedKeys ==
    {w.key : w \in Range(DECRYPTED_WALLETS)}
    \cup {w.data.key : w \in Range(WALLETS_FILE.recs) \cup Range(TRASH_FILE.recs)}
    \cup {w.privateKey : w \in Range(WALLETS_FILE.recs) \cup Range(TRASH_FILE.recs)}

createNewWallet(name, k, choice, entry) ==
    /\ app = "cli" /\ pc = "menu" /\ Unlocked
    /\ WALLETS_FILE.parses
    /\ Len(loadWalletsRaw) < MaxWallets
    /\ k \notin UsedKeys
    /\ LET p == EnsurePref(choice, entry)
       IN /\ saveEncryptedWallet(name, k, p.pw, p.origin, p.flag, entry)
          /\ encryptionDisabled' = p.flag
          /\ SETTINGS_FILE' = p.settings
          /\ plainConfirmed' = p.confirmed
    /\ UNCHANGED <<app, pc, attempts, TRASH_FILE, wrongAttempts, unlockResult>>
    /\ UNCHANGED <<sessVars, fundVars>>
    /\ ReportsAndBacksUp("ok")

importWallet(name, input, choice, entry) ==
    /\ app = "cli" /\ pc = "menu" /\ Unlocked
    /\ WALLETS_FILE.parses \/ NewWallet(input) = Fail
    /\ Len(loadWalletsRaw) < MaxWallets
    /\ LET p == EnsurePref(choice, entry)
           cur == IF p.flag THEN p.pw ELSE GetPassword(p.pw, entry)
           curOrigin == IF p.flag THEN p.origin
                        ELSE OriginAfter(p.pw, p.origin, "single")
       IN /\ IF NewWallet(input) = Fail
             THEN /\ SESSION_PASSWORD' = cur
                  /\ pwOrigin' = curOrigin
                  /\ UNCHANGED <<WALLETS_FILE, DECRYPTED_WALLETS, encryptOrigin>>
             ELSE saveEncryptedWallet(name, input, cur, curOrigin, p.flag, entry)
          /\ encryptionDisabled' = p.flag
          /\ SETTINGS_FILE' = p.settings
          /\ plainConfirmed' = p.confirmed
    /\ UNCHANGED <<app, pc, attempts, TRASH_FILE, wrongAttempts, unlockResult>>
    /\ UNCHANGED <<sessVars, fundVars>>
    /\ IF NewWallet(input) = Fail
       THEN Reports("invalid")
       ELSE ReportsAndBacksUp("ok")

FirstIndex(s, P(_)) ==
    IF \E i \in DOMAIN s : P(s[i])
    THEN CHOOSE i \in DOMAIN s : P(s[i]) /\ \A j \in 1..(i - 1) : ~P(s[j])
    ELSE 0

RingAddresses == {AddressOf(w.key) : w \in Range(DECRYPTED_WALLETS)}

FindByAddress(addr) ==
    DECRYPTED_WALLETS[FirstIndex(DECRYPTED_WALLETS, LAMBDA w : AddressOf(w.key) = addr)]

deleteWalletKeepingTheRecord(addr) ==
    /\ app = "cli" /\ pc = "menu"
    /\ DECRYPTED_WALLETS # <<>>
    /\ addr \in RingAddresses
    /\ WALLETS_FILE.exists /\ WALLETS_FILE.parses
    /\ Len(TRASH_FILE.recs) < MaxTrash
    /\ LET rawWallets == WALLETS_FILE.recs
           target == FindByAddress(addr).name
           walletIndex == FirstIndex(rawWallets, LAMBDA w : w.name = target)
       IN /\ walletIndex # 0
          /\ WALLETS_FILE' = File(rawWallets)
          /\ TRASH_FILE' = File(Append(TRASH_FILE.recs, rawWallets[walletIndex]))
          /\ DECRYPTED_WALLETS' =
                 SelectSeq(DECRYPTED_WALLETS, LAMBDA w : AddressOf(w.key) # addr)
    /\ UNCHANGED <<app, pc, attempts, SETTINGS_FILE, SESSION_PASSWORD,
                   encryptionDisabled, pwOrigin, encryptOrigin, plainConfirmed,
                   wrongAttempts, unlockResult>>
    /\ UNCHANGED <<sessVars, fundVars>>
    /\ ReportsAndBacksUp("ok")

deleteWallet(addr) ==
    /\ app = "cli" /\ pc = "menu"
    /\ DECRYPTED_WALLETS # <<>>
    /\ addr \in RingAddresses
    /\ WALLETS_FILE.exists /\ WALLETS_FILE.parses
    /\ Len(TRASH_FILE.recs) < MaxTrash
    /\ LET rawWallets == WALLETS_FILE.recs
           target == FindByAddress(addr).name
           walletIndex == FirstIndex(rawWallets, LAMBDA w : w.name = target)
       IN /\ walletIndex # 0
          /\ WALLETS_FILE' = File(RemoveAt(rawWallets, walletIndex))
          /\ TRASH_FILE' = File(Append(TRASH_FILE.recs, rawWallets[walletIndex]))
          /\ DECRYPTED_WALLETS' =
                 SelectSeq(DECRYPTED_WALLETS, LAMBDA w : AddressOf(w.key) # addr)
    /\ UNCHANGED <<app, pc, attempts, SETTINGS_FILE, SESSION_PASSWORD,
                   encryptionDisabled, pwOrigin, encryptOrigin, plainConfirmed,
                   wrongAttempts, unlockResult>>
    /\ UNCHANGED <<sessVars, fundVars>>
    /\ ReportsAndBacksUp("ok")

restoreWalletOnlyWhenItUnlocks(idx, entry) ==
    /\ app = "cli" /\ pc = "menu"
    /\ TRASH_FILE.exists
    /\ idx \in DOMAIN TRASH_FILE.recs
    /\ Len(WALLETS_FILE.recs) < MaxWallets
    /\ LET restored == TRASH_FILE.recs[idx]
           password == GetPassword(SESSION_PASSWORD, entry)
           k == FromEncryptedJson(restored.data, password)
       IN /\ TRASH_FILE' = File(RemoveAt(TRASH_FILE.recs, idx))
          /\ IF ~WALLETS_FILE.exists \/ ~WALLETS_FILE.parses
             THEN /\ UNCHANGED <<WALLETS_FILE, SESSION_PASSWORD, pwOrigin,
                                 DECRYPTED_WALLETS>>
                  /\ Reports("error")
             ELSE /\ WALLETS_FILE' = IF k = Fail THEN WALLETS_FILE
                                     ELSE File(Append(WALLETS_FILE.recs, restored))
                  /\ ReportsAndBacksUp(IF k = Fail THEN "warning" ELSE "ok")
                  /\ SESSION_PASSWORD' = password
                  /\ pwOrigin' = OriginAfter(SESSION_PASSWORD, pwOrigin, "single")
                  /\ DECRYPTED_WALLETS' =
                        IF k = Fail THEN DECRYPTED_WALLETS
                        ELSE Append(DECRYPTED_WALLETS,
                                    [name |-> restored.name, key |-> k])
    /\ UNCHANGED <<app, pc, attempts, SETTINGS_FILE, encryptionDisabled,
                   encryptOrigin, plainConfirmed, wrongAttempts, unlockResult>>
    /\ UNCHANGED <<sessVars, fundVars>>

restoreWallet(idx, entry) ==
    /\ app = "cli" /\ pc = "menu"
    /\ TRASH_FILE.exists
    /\ idx \in DOMAIN TRASH_FILE.recs
    /\ Len(WALLETS_FILE.recs) < MaxWallets
    /\ LET restored == TRASH_FILE.recs[idx]
           password == GetPassword(SESSION_PASSWORD, entry)
           k == FromEncryptedJson(restored.data, password)
       IN /\ TRASH_FILE' = File(RemoveAt(TRASH_FILE.recs, idx))
          /\ IF ~WALLETS_FILE.exists \/ ~WALLETS_FILE.parses
             THEN /\ UNCHANGED <<WALLETS_FILE, SESSION_PASSWORD, pwOrigin,
                                 DECRYPTED_WALLETS>>
                  /\ Reports("error")
             ELSE /\ WALLETS_FILE' = File(Append(WALLETS_FILE.recs, restored))
                  /\ ReportsAndBacksUp(IF k = Fail THEN "warning" ELSE "ok")
                  /\ SESSION_PASSWORD' = password
                  /\ pwOrigin' = OriginAfter(SESSION_PASSWORD, pwOrigin, "single")
                  /\ DECRYPTED_WALLETS' =
                        IF k = Fail THEN DECRYPTED_WALLETS
                        ELSE Append(DECRYPTED_WALLETS,
                                    [name |-> restored.name, key |-> k])
    /\ UNCHANGED <<app, pc, attempts, SETTINGS_FILE, encryptionDisabled,
                   encryptOrigin, plainConfirmed, wrongAttempts, unlockResult>>
    /\ UNCHANGED <<sessVars, fundVars>>

PlainStore(ring) == [i \in DOMAIN ring |-> PlainRec(ring[i].name, ring[i].key)]

EncryptedStore(ring, password) ==
    [i \in DOMAIN ring |-> EncRec(ring[i].name, ring[i].key, password)]

toggleEncryption(sure1, sure2, entry) ==
    /\ app = "cli" /\ pc = "menu"
    /\ DECRYPTED_WALLETS # <<>>
    /\ IF SESSION_PASSWORD # None
       THEN /\ sure1 /\ sure2
            /\ WALLETS_FILE' = File(PlainStore(DECRYPTED_WALLETS))
            /\ SESSION_PASSWORD' = None
            /\ pwOrigin' = "none"
            /\ plainConfirmed' = TRUE
            /\ UNCHANGED encryptOrigin
       ELSE /\ WALLETS_FILE' = File(EncryptedStore(DECRYPTED_WALLETS, entry))
            /\ SESSION_PASSWORD' = entry
            /\ pwOrigin' = "double"
            /\ encryptOrigin' = "double"
            /\ UNCHANGED plainConfirmed
    /\ UNCHANGED <<app, pc, attempts, TRASH_FILE, SETTINGS_FILE, DECRYPTED_WALLETS,
                   encryptionDisabled, wrongAttempts, unlockResult>>
    /\ UNCHANGED <<sessVars, fundVars>>
    /\ ReportsAndBacksUp("ok")

renameWalletEmptyingTrash(addr, newName, entry) ==
    /\ app = "cli" /\ pc = "menu"
    /\ DECRYPTED_WALLETS # <<>>
    /\ addr \in RingAddresses
    /\ LET t == FirstIndex(DECRYPTED_WALLETS, LAMBDA w : AddressOf(w.key) = addr)
           ring == [DECRYPTED_WALLETS EXCEPT ![t].name = newName]
           password == GetPassword(SESSION_PASSWORD, entry)
           origin == OriginAfter(SESSION_PASSWORD, pwOrigin, "single")
       IN /\ DECRYPTED_WALLETS' = ring
          /\ WALLETS_FILE' = File(EncryptedStore(ring, password))
          /\ SESSION_PASSWORD' = password
          /\ pwOrigin' = origin
          /\ encryptOrigin' = origin
    /\ TRASH_FILE' = [TRASH_FILE EXCEPT !.recs = <<>>]
    /\ UNCHANGED <<app, pc, attempts, SETTINGS_FILE, encryptionDisabled,
                   plainConfirmed, wrongAttempts, unlockResult>>
    /\ UNCHANGED <<sessVars, fundVars>>
    /\ ReportsAndBacksUp("ok")

renameWallet(addr, newName, entry) ==
    /\ app = "cli" /\ pc = "menu"
    /\ DECRYPTED_WALLETS # <<>>
    /\ addr \in RingAddresses
    /\ LET t == FirstIndex(DECRYPTED_WALLETS, LAMBDA w : AddressOf(w.key) = addr)
           ring == [DECRYPTED_WALLETS EXCEPT ![t].name = newName]
           password == GetPassword(SESSION_PASSWORD, entry)
           origin == OriginAfter(SESSION_PASSWORD, pwOrigin, "single")
       IN /\ DECRYPTED_WALLETS' = ring
          /\ WALLETS_FILE' = File(EncryptedStore(ring, password))
          /\ SESSION_PASSWORD' = password
          /\ pwOrigin' = origin
          /\ encryptOrigin' = origin
    /\ UNCHANGED <<app, pc, attempts, TRASH_FILE, SETTINGS_FILE, encryptionDisabled,
                   plainConfirmed, wrongAttempts, unlockResult>>
    /\ UNCHANGED <<sessVars, fundVars>>
    /\ ReportsAndBacksUp("ok")

\* initializeWallets is entered from ensureWalletsUnlocked with a non-empty file
NeedsInit == app = "cli" /\ pc = "menu" /\ WALLETS_FILE.parses /\ ~Unlocked

\* rawWallets.map(w => new ethers.Wallet(w.privateKey)): throws on a record
\* without privateKey, before the assignment
AllPlain(raw) == \A i \in DOMAIN raw : NewWallet(raw[i].privateKey) # Fail

PlainRing(raw) == [i \in DOMAIN raw |-> [name |-> raw[i].name, key |-> raw[i].privateKey]]

\* the migration loop: pushes until new ethers.Wallet throws
RECURSIVE MigrateLoop(_, _)
MigrateLoop(raw, acc) ==
    IF raw = <<>> THEN [ok |-> TRUE, ring |-> acc]
    ELSE IF NewWallet(Head(raw).privateKey) = Fail THEN [ok |-> FALSE, ring |-> acc]
    ELSE MigrateLoop(Tail(raw),
                     Append(acc, [name |-> Head(raw).name, key |-> Head(raw).privateKey]))

\* plain-text file, flag not set, user picks "Encrypt wallets now"
initializeWalletsEncrypt(entry) ==
    /\ NeedsInit
    /\ IsPlain(loadWalletsRaw[1])
    /\ ~encryptionDisabled
    /\ LET password == GetPassword(SESSION_PASSWORD, entry)
           origin == OriginAfter(SESSION_PASSWORD, pwOrigin, "double")
           res == MigrateLoop(loadWalletsRaw, <<>>)
       IN /\ SESSION_PASSWORD' = password
          /\ pwOrigin' = origin
          /\ DECRYPTED_WALLETS' = res.ring
          /\ encryptOrigin' = origin
          /\ WALLETS_FILE' = IF res.ok THEN File(EncryptedStore(res.ring, password))
                             ELSE WALLETS_FILE
    /\ UNCHANGED <<app, pc, attempts, TRASH_FILE, SETTINGS_FILE, encryptionDisabled,
                   plainConfirmed, wrongAttempts, unlockResult>>
    /\ UNCHANGED <<sessVars, fundVars>>
    /\ IF MigrateLoop(loadWalletsRaw, <<>>).ok
       THEN ReportsAndBacksUp("ok")
       ELSE Reports("error")

\* plain-text file, flag not set, user picks "Keep unencrypted" and confirms twice
initializeWalletsKeep(ok1, ok2) ==
    /\ NeedsInit
    /\ IsPlain(loadWalletsRaw[1])
    /\ ~encryptionDisabled
    /\ ok1 /\ ok2
    /\ encryptionDisabled' = TRUE
    /\ SETTINGS_FILE' = TRUE
    /\ plainConfirmed' = TRUE
    /\ DECRYPTED_WALLETS' = IF AllPlain(loadWalletsRaw) THEN PlainRing(loadWalletsRaw)
                            ELSE DECRYPTED_WALLETS
    /\ UNCHANGED <<app, pc, attempts, WALLETS_FILE, TRASH_FILE, SESSION_PASSWORD,
                   pwOrigin, encryptOrigin, wrongAttempts, unlockResult>>
    /\ UNCHANGED <<sessVars, fundVars>>
    /\ ReportsAndBacksUp(IF AllPlain(loadWalletsRaw) THEN "ok" ELSE "error")

\* plain-text file, flag set
initializeWalletsPlain ==
    /\ NeedsInit
    /\ IsPlain(loadWalletsRaw[1])
    /\ encryptionDisabled
    /\ AllPlain(loadWalletsRaw)
    /\ DECRYPTED_WALLETS' = PlainRing(loadWalletsRaw)
    /\ UNCHANGED <<app, pc, attempts, WALLETS_FILE, TRASH_FILE, SETTINGS_FILE,
                   SESSION_PASSWORD, encryptionDisabled, pwOrigin, encryptOrigin,
                   plainConfirmed, wrongAttempts, unlockResult>>
    /\ UNCHANGED <<sessVars, fundVars>>
    /\ Reports("ok")

Bump(n) == IF n < MaxWrongTracked THEN n + 1 ELSE n

\* one round of the while (attempts > 0) loop of initializeWallets
initializeWalletsAttempt(entry) ==
    /\ app = "cli"
    /\ \/ pc = "unlock"
       \/ NeedsInit /\ ~IsPlain(loadWalletsRaw[1])
    /\ LET left == IF pc = "unlock" THEN attempts ELSE 3
           password == GetPassword(SESSION_PASSWORD, entry)
           res == DecryptLoop(loadWalletsRaw, password, <<>>)
       IN IF res.ok
          THEN /\ DECRYPTED_WALLETS' = res.ring
               /\ SESSION_PASSWORD' = password
               /\ pwOrigin' = OriginAfter(SESSION_PASSWORD, pwOrigin, "unlock")
               /\ pc' = "menu"
               /\ attempts' = 3
               /\ unlockResult' = "none"
               /\ UNCHANGED <<app, wrongAttempts, encryptOrigin, encryptionDisabled>>
          ELSE /\ SESSION_PASSWORD' = None
               /\ pwOrigin' = "none"
               /\ IF left - 1 = 0
                  THEN /\ app' = "off"
                       /\ pc' = "off"
                       /\ attempts' = 3
                       /\ wrongAttempts' = 0
                       /\ DECRYPTED_WALLETS' = <<>>
                       /\ unlockResult' = "none"
                       /\ encryptOrigin' = "none"
                       /\ encryptionDisabled' = FALSE
                  ELSE /\ app' = app
                       /\ pc' = "unlock"
                       /\ attempts' = left - 1
                       /\ wrongAttempts' = Bump(wrongAttempts)
                       /\ DECRYPTED_WALLETS' = res.ring
                       /\ unlockResult' = "failed"
                       /\ UNCHANGED <<encryptOrigin, encryptionDisabled>>
    /\ UNCHANGED <<WALLETS_FILE, TRASH_FILE, SETTINGS_FILE, plainConfirmed>>
    /\ UNCHANGED <<sessVars, fundVars>>
    /\ Reports(IF DecryptLoop(loadWalletsRaw, GetPassword(SESSION_PASSWORD, entry), <<>>).ok
               THEN "ok" ELSE "wrong")

\* core.js unlockWallets: throws on a plain record or on a failed decrypt
RECURSIVE UnlockLoop(_, _, _)
UnlockLoop(raw, password, acc) ==
    IF raw = <<>> THEN [why |-> "ok", ring |-> acc]
    ELSE IF IsPlain(Head(raw)) THEN [why |-> "legacy", ring |-> acc]
    ELSE LET k == FromEncryptedJson(Head(raw).data, password)
         IN IF k = Fail THEN [why |-> "failed", ring |-> acc]
            ELSE UnlockLoop(Tail(raw), password,
                            Append(acc, [name |-> Head(raw).name, key |-> k]))

unlockWallets(password) ==
    IF ~WALLETS_FILE.exists THEN [why |-> "ok", ring |-> DECRYPTED_WALLETS]
    ELSE UnlockLoop(WALLETS_FILE.recs, password, <<>>)

\* tui.js init: the enter key of the password box
tuiUnlock(pass) ==
    /\ app = "tui" /\ pc = "prompt"
    /\ LET res == unlockWallets(pass)
       IN /\ DECRYPTED_WALLETS' = res.ring
          /\ unlockResult' = IF res.why = "ok" THEN "none" ELSE res.why
          /\ pc' = IF res.why = "ok" THEN "dashboard" ELSE "prompt"
          /\ wrongAttempts' = IF res.why = "failed" THEN Bump(wrongAttempts)
                              ELSE wrongAttempts
    /\ UNCHANGED <<app, attempts, WALLETS_FILE, TRASH_FILE, SETTINGS_FILE,
                   SESSION_PASSWORD, encryptionDisabled, pwOrigin, encryptOrigin,
                   plainConfirmed>>
    /\ UNCHANGED <<sessVars, fundVars>>
    /\ Reports(IF unlockWallets(pass).why = "ok" THEN "ok" ELSE "wrong")

BackupMethods == {"rclone", "gapi", None}

\* changeSettings, "Backup Configuration": sets backupMethod, then saveSettings
\* writes settings.json and calls triggerBackup with the new settings
configureBackup(method) ==
    /\ app = "cli" /\ pc = "menu"
    /\ backupMethod' = method
    /\ SETTINGS_FILE' = encryptionDisabled
    /\ outcome' = "ok"
    /\ UNCHANGED <<app, pc, attempts, WALLETS_FILE, TRASH_FILE, DECRYPTED_WALLETS,
                   SESSION_PASSWORD, encryptionDisabled, pwOrigin, encryptOrigin,
                   plainConfirmed, wrongAttempts, unlockResult>>
    /\ triggerBackup(method)
    /\ UNCHANGED <<sessVars, fundVars, extVars>>

\* the operations of the CLI menu on the vault
MenuNext ==
    \/ \E n \in Names, k \in Keys, c \in {"encrypt", "plain"}, e \in Passwords :
          createNewWallet(n, k, c, e)
    \/ \E n \in Names, k \in Keys \cup {"bad"}, c \in {"encrypt", "plain"}, e \in Passwords :
          importWallet(n, k, c, e)
    \/ \E k \in Keys : deleteWallet(AddressOf(k))
    \/ \E i \in 1..MaxTrash, e \in Passwords : restoreWallet(i, e)
    \/ \E s1 \in BOOLEAN, s2 \in BOOLEAN, e \in Passwords : toggleEncryption(s1, s2, e)
    \/ \E k \in Keys, n \in Names, e \in Passwords : renameWallet(AddressOf(k), n, e)
    \/ \E e \in Passwords : initializeWalletsEncrypt(e)
    \/ \E o1 \in BOOLEAN, o2 \in BOOLEAN : initializeWalletsKeep(o1, o2)
    \/ initializeWalletsPlain
    \/ \E e \in Passwords : initializeWalletsAttempt(e)

VaultNext ==
    \/ Exit
    \/ \E a \in {"cli", "tui"} : Launch(a)
    \/ MenuNext
    \/ \E e \in Passwords : tuiUnlock(e)

\* the backup configuration of the settings menu with the operations that
\* write secrets into my_wallets.json
BackupNext ==
    \/ Exit
    \/ \E a \in {"cli"} : Launch(a)
    \/ \E n \in Names, k \in Keys, c \in {"encrypt", "plain"}, e \in Passwords :
          createNewWallet(n, k, c, e)
    \/ \E n \in Names, k \in Keys \cup {"bad"}, c \in {"encrypt", "plain"}, e \in Passwords :
          importWallet(n, k, c, e)
    \/ \E s1 \in BOOLEAN, s2 \in BOOLEAN, e \in Passwords : toggleEncryption(s1, s2, e)
    \/ \E k \in Keys, n \in Names, e \in Passwords : renameWallet(AddressOf(k), n, e)
    \/ \E e \in Passwords : initializeWalletsEncrypt(e)
    \/ \E o1 \in BOOLEAN, o2 \in BOOLEAN : initializeWalletsKeep(o1, o2)
    \/ initializeWalletsPlain
    \/ \E e \in Passwords : initializeWalletsAttempt(e)
    \/ \E m \in BackupMethods : configureBackup(m)

\* the records file is damaged between two operations (a torn write, an edit
\* by hand): JSON.parse will throw on it
walletsFileDamaged ==
    /\ app = "off" \/ (app = "cli" /\ pc = "menu")
    /\ WALLETS_FILE.exists /\ WALLETS_FILE.parses
    /\ WALLETS_FILE' = Unreadable
    /\ UNCHANGED <<app, pc, attempts, TRASH_FILE, SETTINGS_FILE, DECRYPTED_WALLETS,
                   SESSION_PASSWORD, encryptionDisabled, pwOrigin, encryptOrigin,
                   plainConfirmed, wrongAttempts, unlockResult>>
    /\ UNCHANGED <<sessVars, fundVars, ioVars, extVars>>

ReadingOps == {"unlock", "create", "import", "delete"}

\* a menu operation whose JSON.parse of the records file throws; the
\* exception reaches the catch of main. "unlock" is ensureWalletsUnlocked
\* with an empty key ring, the others run with wallets in memory; import has
\* asked for the vault password before it reads the file
readFails(op, entry) ==
    /\ app = "cli" /\ pc = "menu"
    /\ WALLETS_FILE.exists /\ ~WALLETS_FILE.parses
    /\ (op = "unlock") = (DECRYPTED_WALLETS = <<>>)
    /\ IF op = "import" /\ ~encryptionDisabled
       THEN /\ SESSION_PASSWORD' = GetPassword(SESSION_PASSWORD, entry)
            /\ pwOrigin' = OriginAfter(SESSION_PASSWORD, pwOrigin, "single")
       ELSE UNCHANGED <<SESSION_PASSWORD, pwOrigin>>
    /\ UNCHANGED <<app, pc, attempts, WALLETS_FILE, TRASH_FILE, SETTINGS_FILE,
                   DECRYPTED_WALLETS, encryptionDisabled, encryptOrigin,
                   plainConfirmed, wrongAttempts, unlockResult>>
    /\ Reports("error")
    /\ UNCHANGED <<sessVars, fundVars>>

DiskNext ==
    \/ MenuNext
    \/ \E a \in {"cli", "tui"} : Launch(a)
    \/ walletsFileDamaged
    \/ \E op \in ReadingOps, e \in Passwords : readFails(op, e)

\* ------------------------------------------------------------------------
\* saveEncryptedWallet step by step, next to a second running instance
\* ------------------------------------------------------------------------
\* line 913: rawWallets = loadWalletsRaw(); the function then awaits the
\* password prompt and wallet.encrypt
saveEncryptedWalletReads(name, k) ==
    /\ app = "cli" /\ pc = "menu" /\ Unlocked
    /\ WALLETS_FILE.parses
    /\ Len(loadWalletsRaw) < MaxWallets
    /\ pc' = "save"
    /\ inflight' = [busy |-> TRUE, rawWallets |-> loadWalletsRaw, name |-> name, key |-> k]
    /\ UNCHANGED <<app, attempts, WALLETS_FILE, TRASH_FILE, SETTINGS_FILE,
                   DECRYPTED_WALLETS, SESSION_PASSWORD, encryptionDisabled,
                   pwOrigin, encryptOrigin, plainConfirmed, wrongAttempts,
                   unlockResult>>
    /\ UNCHANGED <<sessVars, fundVars, ioVars, terminal>>

\* lines 915-927: push onto rawWallets, writeFileSync, update memory, backup
saveEncryptedWalletWrites(entry) ==
    /\ app = "cli" /\ pc = "save"
    /\ inflight.busy
    /\ LET password == GetPassword(SESSION_PASSWORD, entry)
           origin == OriginAfter(SESSION_PASSWORD, pwOrigin, "single")
       IN IF encryptionDisabled
          THEN /\ WALLETS_FILE' = File(Append(inflight.rawWallets,
                                               PlainRec(inflight.name, inflight.key)))
               /\ UNCHANGED <<SESSION_PASSWORD, pwOrigin, encryptOrigin>>
          ELSE /\ WALLETS_FILE' = File(Append(inflight.rawWallets,
                                               EncRec(inflight.name, inflight.key, password)))
               /\ SESSION_PASSWORD' = password
               /\ pwOrigin' = origin
               /\ encryptOrigin' = origin
    /\ DECRYPTED_WALLETS' = Append(DECRYPTED_WALLETS,
                                   [name |-> inflight.name, key |-> inflight.key])
    /\ pc' = "menu"
    /\ inflight' = NoInflight
    /\ outcome' = "ok"
    /\ triggerBackup(backupMethod)
    /\ UNCHANGED <<app, attempts, TRASH_FILE, SETTINGS_FILE, encryptionDisabled,
                   plainConfirmed, wrongAttempts, unlockResult>>
    /\ UNCHANGED <<sessVars, fundVars, backupMethod, terminal>>

\* a second running instance of the program saves a wallet: the same
\* saveEncryptedWallet, seen from this instance as one write of the file
otherInstanceSaves(name, k, password) ==
    /\ app = "cli"
    /\ WALLETS_FILE.parses
    /\ Len(loadWalletsRaw) < MaxWallets
    /\ WALLETS_FILE' = File(Append(loadWalletsRaw, EncRec(name, k, password)))
    /\ UNCHANGED <<app, pc, attempts, TRASH_FILE, SETTINGS_FILE,
                   DECRYPTED_WALLETS, SESSION_PASSWORD, encryptionDisabled,
                   pwOrigin, encryptOrigin, plainConfirmed, wrongAttempts,
                   unlockResult>>
    /\ UNCHANGED <<sessVars, fundVars, ioVars, extVars>>

InstancesNext ==
    \/ \E n \in Names, k \in Keys : saveEncryptedWalletReads(n, k)
    \/ \E e \in Passwords : saveEncryptedWalletWrites(e)
    \/ \E n \in Names, k \in Keys, e \in Passwords : otherInstanceSaves(n, k, e)
    \/ \E k \in Keys, n \in Names, e \in Passwords : renameWallet(AddressOf(k), n, e)
    \/ \E s1 \in BOOLEAN, s2 \in BOOLEAN, e \in Passwords : toggleEncryption(s1, s2, e)

\* ------------------------------------------------------------------------
\* showPrivateKey (part_000, lines 259-312)
\* ------------------------------------------------------------------------
\* the Back entry of a wallet list
BACK == <<"BACK">>

PrintedWhateverTheAnswer(target, sure) == target.key

\* what process.stdout.write receives as keyLine
Printed(target, sure) == IF sure = "Yes, Reveal" THEN target.key ELSE None

showPrivateKey(choice, sure) ==
    /\ app = "cli" /\ pc = "menu"
    /\ DECRYPTED_WALLETS # <<>>
    /\ choice \in RingAddresses \cup {BACK}
    /\ Len(terminal) < MaxReveals
    /\ terminal' = Append(terminal,
           IF choice = BACK
           THEN [selected |-> BACK, sure |-> None, printed |-> None]
           ELSE [selected |-> choice, sure |-> sure,
                 printed |-> Printed(FindByAddress(choice), sure)])
    /\ outcome' = "ok"
    /\ UNCHANGED <<backupMethod, uploaded, inflight>>
    /\ UNCHANGED <<vaultVars, sessVars, fundVars>>

RevealNext ==
    \E choice \in {AddressOf(k) : k \in Keys} \cup {BACK}, sure \in {"No", "Yes, Reveal"} :
        showPrivateKey(choice, sure)

\* ------------------------------------------------------------------------
\* WalletConnect session handlers of connectWallet (part_000, lines 57-257)
\* ------------------------------------------------------------------------
ReqIds == {1, 2}
ProposalIds == {7}

\* the topic client.approve returns for a proposal
Topics == (7 :> "topic:7")

HexBytes == ("0x48656c6c6f" :> <<72, 101, 108, 108, 111>>) @@ ("0xff" :> <<255>>)

\* the byte strings that are well-formed UTF-8
Utf8 == (<<72, 101, 108, 108, 111>> :> "Hello")

isHexString(m) == m \in DOMAIN HexBytes

getBytes(m) == <<"bytes", HexBytes[m]>>

toUtf8String(m) == IF HexBytes[m] \in DOMAIN Utf8 THEN Utf8[HexBytes[m]] ELSE Fail

TypedObject == [ok |-> TRUE, domain |-> "d", types |-> "t", message |-> "m"]

SyntaxError == [ok |-> FALSE, domain |-> None, types |-> None, message |-> None]

\* JSON.parse over the payload strings a peer can send; ok tells whether it
\* returned or threw
JsonParse(str) == IF str = "typedJson" THEN TypedObject ELSE SyntaxError

signMessage(k, data) == [ok |-> TRUE, key |-> k, op |-> "signMessage", data |-> data]

signTypedData(k, obj) ==
    [ok |-> TRUE, key |-> k, op |-> "signTypedData",
     data |-> <<obj.domain, obj.types, obj.message>>]

NoReq ==
    [method |-> None, message |-> None, typed |-> None, to |-> None, value |-> None,
     data |-> None, gas |-> None, chainId |-> None]

\* event.params.chainId: the chain a request is issued for
OnChain(req, chain) == [req EXCEPT !.chainId = chain]

PersonalSign(m) == [NoReq EXCEPT !.method = "personal_sign", !.message = m]

SignTyped(d) == [NoReq EXCEPT !.method = "eth_signTypedData_v4", !.typed = d]

SendTx(to, v, data, gas) ==
    [NoReq EXCEPT !.method = "eth_sendTransaction", !.to = to, !.value = v,
                  !.data = data, !.gas = gas]

Requests ==
    {PersonalSign(m) : m \in {"0x48656c6c6f", "0xff", "Hello"}}
    \cup {SignTyped(d) : d \in {"typedJson", "notJson"}}
    \cup {OnChain(SendTx("0xdApp", "0x1", "0xa9059cbb", "0x5208"), "eip155:56")}
    \cup {[NoReq EXCEPT !.method = "eth_accounts"]}

\* one entry of requiredNamespaces / optionalNamespaces; hasChains is FALSE
\* when the entry has no chains field
Eip155(hasChains, chains, methods, evts) ==
    [key |-> "eip155", hasChains |-> hasChains, chains |-> chains, methods |-> methods,
     events |-> evts]

NoParams == [requiredNamespaces |-> {}, optionalNamespaces |-> {}]

\* the params of the proposals a peer sends
ProposalParams ==
    {[requiredNamespaces |->
          {Eip155(TRUE, <<"eip155:1", "eip155:56">>, {"personal_sign"}, {"chainChanged"})},
      optionalNamespaces |-> {}],
     [requiredNamespaces |->
          {Eip155(TRUE, <<"eip155:1">>, {"personal_sign"}, {"chainChanged"})},
      optionalNamespaces |->
          {Eip155(TRUE, <<"eip155:56">>, {"eth_sendTransaction"}, {"accountsChanged"})}],
     [requiredNamespaces |-> {Eip155(FALSE, <<>>, {"personal_sign"}, {})},
      optionalNamespaces |-> {}]}

\* { ...required, ...optional }: an optional entry replaces the required
\* entry with the same key
Spread(required, optional) ==
    optional \cup {r \in required : \A o \in optional : o.key # r.key}

DefaultChains == <<"eip155:1">>

AccountsOfFirstWallet(chains, address) ==
    [i \in DOMAIN chains |-> <<chains[i], AddressOf(DECRYPTED_WALLETS[1].key)>>]

\* chains.map((chain) => `${chain}:${signer.address}`)
Accounts(chains, address) == [i \in DOMAIN chains |-> <<chains[i], address>>]

\* the namespaces object built by the session_proposal handler
Namespaces(params, address) ==
    {[key |-> n.key,
      accounts |-> Accounts(IF n.hasChains THEN n.chains ELSE DefaultChains, address),
      methods |-> n.methods,
      events |-> n.events] :
        n \in Spread(params.requiredNamespaces, params.optionalNamespaces)}

NoTx == [to |-> None, value |-> None, data |-> None, gasLimit |-> None]

BuildTxWithoutGas(txParams) ==
    [to |-> txParams.to, value |-> txParams.value, data |-> txParams.data,
     gasLimit |-> None]

\* const tx = { to, value, data, gasLimit: txParams.gas }
BuildTx(txParams) ==
    [to |-> txParams.to, value |-> txParams.value, data |-> txParams.data,
     gasLimit |-> txParams.gas]

NoSession == [paired |-> FALSE, topic |-> None, acked |-> FALSE, uri |-> <<>>]

\* pairing URIs as the characters that matter to input.startsWith('wc:')
WcPrefix == <<"w", "c", ":">>
GoodUri == <<"w", "c", ":", "7", "@", "2">>
BareUri == <<"w", "c", ":">>
HttpUri == <<"h", "t", "t", "p", ":">>

StartsWith(input, prefix) ==
    /\ Len(input) >= Len(prefix)
    /\ SubSeq(input, 1, Len(prefix)) = prefix

\* what the user types at the 'Enter WalletConnect URI' prompt, one line per
\* time the prompt is shown
TypedUris == {<<GoodUri>>, <<HttpUri, GoodUri>>, <<BareUri>>, <<HttpUri, HttpUri, BareUri>>}

uriAnswerUnvalidated(typed) == typed[1]

\* the input prompt returns the first line its validate function accepts
uriAnswer(typed) ==
    typed[CHOOSE i \in DOMAIN typed :
            /\ StartsWith(typed[i], WcPrefix)
            /\ \A j \in 1..(i - 1) : ~StartsWith(typed[j], WcPrefix)]

\* client.pair throws on a URI without topic and version, and when the
\* relay cannot be reached
pair(uri, relayOk) == relayOk /\ StartsWith(uri, WcPrefix) /\ Len(uri) > Len(WcPrefix)

\* the promise of connectWallet is resolved: back to the main menu
Resolved == IF pc = "connect" THEN "menu" ELSE pc

\* connectWallet up to client.pair; a later call makes a new client, the
\* previous client is taken to stay silent from then on
connectWallet(addr, typed, relayOk) ==
    /\ app = "cli" /\ pc = "menu"
    /\ DECRYPTED_WALLETS # <<>>
    /\ addr \in RingAddresses
    /\ signer' = FindByAddress(addr).key
    /\ LET uri == uriAnswer(typed)
       IN /\ session' = [NoSession EXCEPT !.paired = pair(uri, relayOk), !.uri = uri]
          /\ pc' = IF pair(uri, relayOk) THEN "connect" ELSE "menu"
    /\ UNCHANGED <<app, attempts, WALLETS_FILE, TRASH_FILE, SETTINGS_FILE,
                   DECRYPTED_WALLETS, SESSION_PASSWORD, encryptionDisabled,
                   pwOrigin, encryptOrigin, plainConfirmed, wrongAttempts,
                   unlockResult>>
    /\ UNCHANGED <<tasks, nextInv, answers, approveLog, execLog, responses, events>>
    /\ UNCHANGED <<fundVars, ioVars, extVars>>

\* an event as the client hands it to a handler
Event(kind, id, topic, req, params) ==
    [inv |-> nextInv + 1, kind |-> kind, id |-> id, topic |-> topic, req |-> req,
     params |-> params]

\* a handler invocation: its event, the signer of its closure, the prompt it
\* waits at and the transaction it has built
Task(kind, id, topic, req, params, stage) ==
    [inv |-> nextInv + 1, kind |-> kind, id |-> id, topic |-> topic, req |-> req,
     params |-> params, stage |-> stage, signer |-> signer, tx |-> NoTx]

\* client.on("session_proposal"): the handler opens the connection prompt
sessionProposal(id, params) ==
    /\ app = "cli"
    /\ session.paired
    /\ nextInv < MaxEvents
    /\ tasks' = tasks \cup {Task("proposal", id, None, NoReq, params, "approve")}
    /\ events' = Append(events, Event("proposal", id, None, NoReq, params))
    /\ nextInv' = nextInv + 1
    /\ UNCHANGED <<signer, session, answers, approveLog, execLog, responses>>
    /\ UNCHANGED <<vaultVars, fundVars, ioVars, extVars>>

\* the handler invocation numbered inv is waiting at the given prompt
Waiting(inv, kind, stage) ==
    \E t \in tasks : t.inv = inv /\ t.kind = kind /\ t.stage = stage

TaskOf(inv) == CHOOSE t \in tasks : t.inv = inv

\* what the handler has printed for the user when the prompt is answered
Shown(t, prompt) ==
    IF t.kind = "proposal"
    THEN <<"Session Proposal from", "Do you want to connect">>
    ELSE IF prompt = "approve"
    THEN <<"New Request:", t.req.method, "Approve", t.req.method, "request?">>
    ELSE <<"New Request:", t.req.method, "Approve", t.req.method, "request?",
           "Processing Transaction:", t.req.to, t.req.value, t.req.data, t.req.gas,
           "Send transaction to", t.tx.to, "with value", t.tx.value>>

Answer(t, prompt, ans) ==
    [inv |-> t.inv, id |-> t.id, kind |-> t.kind, prompt |-> prompt, ans |-> ans,
     shown |-> Shown(t, prompt)]

\* client.approve({ id, namespaces })
Approve(t) ==
    [inv |-> t.inv, id |-> t.id, address |-> AddressOf(t.signer),
     namespaces |-> Namespaces(t.params, AddressOf(t.signer))]

approveWhateverTheAnswer(t, ans) ==
    /\ answers' = answers \cup {Answer(t, "approve", ans)}
    /\ tasks' = (tasks \ {t}) \cup {[t EXCEPT !.stage = "ack"]}
    /\ approveLog' = Append(approveLog, Approve(t))
    /\ session' = [session EXCEPT !.topic = Topics[t.id]]
    /\ UNCHANGED <<signer, nextInv, execLog, responses, events>>
    /\ UNCHANGED <<vaultVars, fundVars, ioVars, extVars>>

approveOrReject(t, ans) ==
    /\ answers' = answers \cup {Answer(t, "approve", ans)}
    /\ IF ans = "No"
       THEN /\ tasks' = tasks \ {t}
            /\ pc' = Resolved
            /\ UNCHANGED <<session, approveLog>>
       ELSE /\ tasks' = (tasks \ {t}) \cup {[t EXCEPT !.stage = "ack"]}
            /\ approveLog' = Append(approveLog, Approve(t))
            /\ session' = [session EXCEPT !.topic = Topics[t.id]]
            /\ pc' = pc
    /\ UNCHANGED <<signer, nextInv, execLog, responses, events>>
    /\ UNCHANGED <<app, attempts, WALLETS_FILE, TRASH_FILE, SETTINGS_FILE,
                   DECRYPTED_WALLETS, SESSION_PASSWORD, encryptionDisabled,
                   pwOrigin, encryptOrigin, plainConfirmed, wrongAttempts,
                   unlockResult>>
    /\ UNCHANGED <<fundVars, ioVars, extVars>>

\* the user answers the connection prompt of a session_proposal handler
proposalAnswered(inv, ans) ==
    /\ Waiting(inv, "proposal", "approve")
    /\ approveOrReject(TaskOf(inv), ans)

\* await acknowledged() returns
acknowledged(inv) ==
    /\ Waiting(inv, "proposal", "ack")
    /\ tasks' = tasks \ {TaskOf(inv)}
    /\ session' = [session EXCEPT !.acked = TRUE]
    /\ UNCHANGED <<signer, nextInv, answers, approveLog, execLog, responses, events>>
    /\ UNCHANGED <<vaultVars, fundVars, ioVars, extVars>>

\* client.on("session_request"): the handler opens the approval prompt
sessionRequest(id, req) ==
    /\ app = "cli"
    /\ session.topic # None
    /\ nextInv < MaxEvents
    /\ tasks' = tasks \cup {Task("request", id, session.topic, req, NoParams, "approve")}
    /\ events' = Append(events, Event("request", id, session.topic, req, NoParams))
    /\ nextInv' = nextInv + 1
    /\ UNCHANGED <<signer, session, answers, approveLog, execLog, responses>>
    /\ UNCHANGED <<vaultVars, fundVars, ioVars, extVars>>

\* the chain served by RPC_URL, https://eth.llamarpc.com: Ethereum mainnet
RPC_URL == "eip155:1"

\* an operation made with the signer's key; a broadcast goes through
\* new ethers.JsonRpcProvider(RPC_URL), a signature touches no network
Exec(t, sig) ==
    [inv |-> t.inv, id |-> t.id, op |-> sig.op, key |-> sig.key, data |-> sig.data,
     network |-> IF sig.op = "sendTransaction" THEN RPC_URL ELSE None]

Respond(t, result) == [inv |-> t.inv, topic |-> t.topic, id |-> t.id, kind |-> "result", result |-> result]

NoResult == [ok |-> FALSE, key |-> None, op |-> None, data |-> <<>>]

\* what the try block produces for the methods that need no second prompt:
\* the signature, or NoResult when an exception is caught or result stays
\* undefined
SignResultOfTheHexString(t) ==
    IF t.req.method = "personal_sign"
    THEN signMessage(t.signer, <<"text", t.req.message>>)
    ELSE NoResult

SignResult(t) ==
    IF t.req.method = "personal_sign"
    THEN LET message == t.req.message
             data == IF isHexString(message) THEN getBytes(message) ELSE <<"text", message>>
             readable == IF isHexString(message) THEN toUtf8String(message) ELSE message
         IN IF readable = Fail THEN NoResult ELSE signMessage(t.signer, data)
    ELSE IF t.req.method \in {"eth_signTypedData", "eth_signTypedData_v4"}
    THEN IF JsonParse(t.req.typed).ok
         THEN signTypedData(t.signer, JsonParse(t.req.typed))
         ELSE NoResult
    ELSE NoResult

signOrReject(t, ans) ==
    /\ answers' = answers \cup {Answer(t, "approve", ans)}
    /\ IF ans = "No"
       THEN /\ tasks' = tasks \ {t}
            /\ UNCHANGED <<execLog, responses>>
       ELSE IF t.req.method = "eth_sendTransaction"
       THEN /\ tasks' = (tasks \ {t}) \cup {[t EXCEPT !.stage = "send", !.tx = BuildTx(t.req)]}
            /\ UNCHANGED <<execLog, responses>>
       ELSE /\ tasks' = tasks \ {t}
            /\ IF SignResult(t).ok
               THEN /\ execLog' = Append(execLog, Exec(t, SignResult(t)))
                    /\ responses' = Append(responses, Respond(t, SignResult(t)))
               ELSE UNCHANGED <<execLog, responses>>
    /\ UNCHANGED <<signer, session, nextInv, approveLog, events>>
    /\ UNCHANGED <<vaultVars, fundVars, ioVars, extVars>>

\* the user answers the approval prompt of a session_request handler
requestAnswered(inv, ans) ==
    /\ Waiting(inv, "request", "approve")
    /\ signOrReject(TaskOf(inv), ans)

sendTransaction(k, tx) ==
    [ok |-> TRUE, key |-> k, op |-> "sendTransaction",
     data |-> <<tx.to, tx.value, tx.data, tx.gasLimit>>]

\* txResponse.hash of a broadcast
Hash(txResponse) == [txResponse EXCEPT !.op = "hash"]

sendOrCancel(t, ans, sent) ==
    /\ answers' = answers \cup {Answer(t, "send", ans)}
    /\ tasks' = tasks \ {t}
    /\ IF ans = "Yes" /\ sent
       THEN LET txResponse == sendTransaction(t.signer, t.tx)
            IN /\ execLog' = Append(execLog, Exec(t, txResponse))
               /\ responses' = Append(responses, Respond(t, Hash(txResponse)))
       ELSE UNCHANGED <<execLog, responses>>
    /\ UNCHANGED <<signer, session, nextInv, approveLog, events>>
    /\ UNCHANGED <<vaultVars, fundVars, ioVars, extVars>>

\* the user answers the second prompt of eth_sendTransaction; sent tells
\* whether the broadcast went through or threw
sendAnswered(inv, ans, sent) ==
    /\ Waiting(inv, "request", "send")
    /\ sendOrCancel(TaskOf(inv), ans, sent)

\* client.on("session_delete")
sessionDelete ==
    /\ app = "cli"
    /\ session.topic # None
    /\ session' = [NoSession EXCEPT !.uri = session.uri]
    /\ pc' = Resolved
    /\ UNCHANGED <<signer, tasks, nextInv, answers, approveLog, execLog, responses,
                   events>>
    /\ UNCHANGED <<app, attempts, WALLETS_FILE, TRASH_FILE, SETTINGS_FILE,
                   DECRYPTED_WALLETS, SESSION_PASSWORD, encryptionDisabled,
                   pwOrigin, encryptOrigin, plainConfirmed, wrongAttempts,
                   unlockResult>>
    /\ UNCHANGED <<fundVars, ioVars, extVars>>

SessionNext ==
    \/ \E k \in Keys, relayOk \in BOOLEAN : connectWallet(AddressOf(k), <<GoodUri>>, relayOk)
    \/ \E id \in ProposalIds, params \in ProposalParams : sessionProposal(id, params)
    \/ \E inv \in 1..MaxEvents, ans \in {"Yes", "No"} : proposalAnswered(inv, ans)
    \/ \E inv \in 1..MaxEvents : acknowledged(inv)
    \/ \E id \in ReqIds, req \in Requests : sessionRequest(id, req)
    \/ \E inv \in 1..MaxEvents, ans \in {"Yes", "No"} : requestAnswered(inv, ans)
    \/ \E inv \in 1..MaxEvents, ans \in {"Yes", "No"}, sent \in BOOLEAN :
            sendAnswered(inv, ans, sent)
    \/ sessionDelete

\* the same handlers with every way of typing the URI and one request of
\* each kind that signs
PairingNext ==
    \/ \E k \in Keys, typed \in TypedUris, relayOk \in BOOLEAN :
            connectWallet(AddressOf(k), typed, relayOk)
    \/ \E params \in ProposalParams : sessionProposal(7, params)
    \/ \E inv \in 1..MaxEvents, ans \in {"Yes", "No"} : proposalAnswered(inv, ans)
    \/ \E inv \in 1..MaxEvents : acknowledged(inv)
    \/ \E req \in {PersonalSign("0x48656c6c6f"),
                    OnChain(SendTx("0xdApp", "0x1", "0xa9059cbb", "0x5208"), "eip155:56")} :
            sessionRequest(1, req)
    \/ \E inv \in 1..MaxEvents, ans \in {"Yes", "No"} : requestAnswered(inv, ans)
    \/ \E inv \in 1..MaxEvents, ans \in {"Yes", "No"}, sent \in BOOLEAN :
            sendAnswered(inv, ans, sent)
    \/ sessionDelete

\* two wallets created in encrypted mode and unlocked: where the session and
\* the local fund operations start
UnlockedVault ==
    /\ attempts = 3
    /\ WALLETS_FILE = File(<<EncRec("Main", "k1", "p1"), EncRec("Alt", "k2", "p1")>>)
    /\ TRASH_FILE = NoFile
    /\ SETTINGS_FILE = FALSE
    /\ DECRYPTED_WALLETS = <<[name |-> "Main", key |-> "k1"], [name |-> "Alt", key |-> "k2"]>>
    /\ encryptionDisabled = FALSE
    /\ plainConfirmed = FALSE
    /\ wrongAttempts = 0
    /\ unlockResult = "none"

CliUnlocked ==
    /\ app = "cli" /\ pc = "menu"
    /\ UnlockedVault
    /\ SESSION_PASSWORD = "p1"
    /\ pwOrigin = "double"
    /\ encryptOrigin = "double"

\* one wallet created in encrypted mode and unlocked
InstancesInit ==
    /\ app = "cli" /\ pc = "menu"
    /\ attempts = 3
    /\ WALLETS_FILE = File(<<EncRec("Main", "k1", "p1")>>)
    /\ TRASH_FILE = NoFile
    /\ SETTINGS_FILE = FALSE
    /\ DECRYPTED_WALLETS = <<[name |-> "Main", key |-> "k1"]>>
    /\ encryptionDisabled = FALSE
    /\ plainConfirmed = FALSE
    /\ wrongAttempts = 0
    /\ unlockResult = "none"
    /\ SESSION_PASSWORD = "p1"
    /\ pwOrigin = "double"
    /\ encryptOrigin = "double"
    /\ SessIdle /\ FundsIdle /\ IoIdle

SessionInit == CliUnlocked /\ SessIdle /\ FundsIdle /\ IoIdle

\* ------------------------------------------------------------------------
\* The headless wallet (part_002): the same client without prompts
\* ------------------------------------------------------------------------
\* client.on("session_proposal"): approves at once
headlessProposal(id, params) ==
    /\ app = "headless"
    /\ session.paired
    /\ nextInv < MaxEvents
    /\ LET t == Task("proposal", id, None, NoReq, params, "ack")
       IN /\ tasks' = tasks \cup {t}
          /\ approveLog' = Append(approveLog, Approve(t))
    /\ session' = [session EXCEPT !.topic = Topics[id]]
    /\ events' = Append(events, Event("proposal", id, None, NoReq, params))
    /\ nextInv' = nextInv + 1
    /\ UNCHANGED <<signer, answers, execLog, responses>>
    /\ UNCHANGED <<vaultVars, fundVars, ioVars, extVars>>

\* client.respond({ topic, response: { id, error: { code, message } } })
RespondError(t, code) ==
    [inv |-> t.inv, topic |-> t.topic, id |-> t.id, kind |-> "error",
     result |-> [ok |-> FALSE, key |-> None, op |-> "error", data |-> <<code, "err.message">>]]

\* client.on("session_request"): signs and responds, or responds with the
\* error of the catch block
headlessRequest(id, req) ==
    /\ app = "headless"
    /\ session.topic # None
    /\ nextInv < MaxEvents
    /\ LET t == Task("request", id, session.topic, req, NoParams, "done")
       IN IF SignResult(t).ok
          THEN /\ execLog' = Append(execLog, Exec(t, SignResult(t)))
               /\ responses' = Append(responses, Respond(t, SignResult(t)))
          ELSE /\ responses' = Append(responses, RespondError(t, "5000"))
               /\ UNCHANGED execLog
    /\ events' = Append(events, Event("request", id, session.topic, req, NoParams))
    /\ nextInv' = nextInv + 1
    /\ UNCHANGED <<signer, session, tasks, answers, approveLog>>
    /\ UNCHANGED <<vaultVars, fundVars, ioVars, extVars>>

\* client.on("session_delete"): process.exit(0)
headlessDelete ==
    /\ app = "headless"
    /\ session.topic # None
    /\ app' = "off" /\ pc' = "off"
    /\ signer' = None
    /\ session' = NoSession
    /\ tasks' = {}
    /\ UNCHANGED <<attempts, WALLETS_FILE, TRASH_FILE, SETTINGS_FILE, DECRYPTED_WALLETS,
                   SESSION_PASSWORD, encryptionDisabled, pwOrigin, encryptOrigin,
                   plainConfirmed, wrongAttempts, unlockResult>>
    /\ UNCHANGED <<nextInv, answers, approveLog, execLog, responses, events>>
    /\ UNCHANGED <<fundVars, ioVars, extVars>>

HeadlessNext ==
    \/ \E id \in ProposalIds, params \in ProposalParams : headlessProposal(id, params)
    \/ \E inv \in 1..MaxEvents : acknowledged(inv)
    \/ \E id \in ReqIds, req \in Requests : headlessRequest(id, req)
    \/ headlessDelete

\* wallet.js started with a URI and client.pair succeeded; no vault
HeadlessInit ==
    /\ app = "headless" /\ pc = "listen"
    /\ attempts = 3
    /\ WALLETS_FILE = NoFile
    /\ TRASH_FILE = NoFile
    /\ SETTINGS_FILE = FALSE
    /\ DECRYPTED_WALLETS = <<>>
    /\ SESSION_PASSWORD = None
    /\ encryptionDisabled = FALSE
    /\ pwOrigin = "none"
    /\ encryptOrigin = "none"
    /\ plainConfirmed = FALSE
    /\ wrongAttempts = 0
    /\ unlockResult = "none"
    /\ signer = "k1"
    /\ session = [NoSession EXCEPT !.paired = TRUE, !.uri = GoodUri]
    /\ tasks = {}
    /\ nextInv = 0
    /\ answers = {}
    /\ approveLog = <<>>
    /\ execLog = <<>>
    /\ responses = <<>>
    /\ events = <<>>
    /\ FundsIdle
    /\ IoIdle

WalletsInit == SessionInit \/ HeadlessInit

WalletsNext == SessionNext \/ HeadlessNext

\* ------------------------------------------------------------------------
\* Local fund-moving operations: transferAsset and swapToken of the CLI,
\* the transfer form of the TUI
\* ------------------------------------------------------------------------
External == <<"0x", "ext">>

Undefined == <<"undefined">>

Router == <<"0x", "router">>

Amounts == {"0.5"}

Assets == {"native", "USDT"}

\* a transaction handed to the provider; prompts lists the Yes/No questions
\* the handler asked before sending it, with the answers
Tx(op, from, to, asset, amount, prompts) ==
    [op |-> op, from |-> from, to |-> to, asset |-> asset, amount |-> amount,
     prompts |-> prompts]

\* sender, network, asset, recipient and amount are chosen, then the
\* transaction is sent; sent is FALSE when the provider call throws
transferAsset(sender, asset, destType, amount, sent) ==
    /\ app = "cli" /\ pc = "menu"
    /\ DECRYPTED_WALLETS # <<>>
    /\ sender \in RingAddresses
    /\ Len(chainTxs) < MaxLocalTx
    /\ LET otherWallets == RingAddresses \ {sender}
           recipients == IF destType = "My Other Wallets" /\ otherWallets # {}
                         THEN otherWallets ELSE {External}
       IN \E recipientAddress \in recipients :
            chainTxs' = IF sent
                        THEN Append(chainTxs, Tx("transfer", sender, recipientAddress,
                                                 asset, amount, <<>>))
                        ELSE chainTxs
    /\ UNCHANGED currentWalletIndex
    /\ UNCHANGED <<vaultVars, sessVars, ioVars, extVars>>

\* the transactions swapToken sends: the router approval when the allowance
\* is short and the user answers Yes, then the swap itself
SwapTxs(addr, amount, allowanceEnough, ok, approved, swapped) ==
    LET asked == IF allowanceEnough THEN <<>>
                 ELSE <<[question |-> "Router needs approval", answer |-> ok]>>
        swapTx == IF swapped
                  THEN <<Tx("swap", addr, Undefined, "USDT", amount, asked)>>
                  ELSE <<>>
    IN IF allowanceEnough THEN swapTx
       ELSE IF ok = "No" \/ ~approved THEN <<>>
       ELSE <<Tx("approve", addr, Router, "USDT", "MaxUint256", asked)>> \o swapTx

swapToken(addr, amount, allowanceEnough, ok, approved, swapped) ==
    /\ app = "cli" /\ pc = "menu"
    /\ DECRYPTED_WALLETS # <<>>
    /\ addr \in RingAddresses
    /\ LET txs == SwapTxs(addr, amount, allowanceEnough, ok, approved, swapped)
       IN /\ Len(chainTxs) + Len(txs) <= MaxLocalTx
          /\ chainTxs' = chainTxs \o txs
    /\ UNCHANGED currentWalletIndex
    /\ UNCHANGED <<vaultVars, sessVars, ioVars, extVars>>

\* walletList.on('select')
tuiSelect(index) ==
    /\ app = "tui" /\ pc = "dashboard"
    /\ index < Len(DECRYPTED_WALLETS)
    /\ currentWalletIndex' = index
    /\ UNCHANGED chainTxs
    /\ UNCHANGED <<vaultVars, sessVars, ioVars, extVars>>

TuiTokens == {"native", "USDT", "XYZ"}

\* showTransferForm: the form is filled in and SUBMIT or CANCEL is pressed
tuiTransfer(button, to, amount, token, sent) ==
    /\ app = "tui" /\ pc = "dashboard"
    /\ currentWalletIndex < Len(DECRYPTED_WALLETS)
    /\ Len(chainTxs) < MaxLocalTx
    /\ LET wallet == DECRYPTED_WALLETS[currentWalletIndex + 1]
       IN chainTxs' = IF button = "SUBMIT" /\ token \in Assets /\ sent
                      THEN Append(chainTxs, Tx("tuiTransfer", AddressOf(wallet.key), to,
                                               token, amount, <<>>))
                      ELSE chainTxs
    /\ UNCHANGED currentWalletIndex
    /\ UNCHANGED <<vaultVars, sessVars, ioVars, extVars>>

FundsNext ==
    \/ \E k \in Keys, asset \in Assets, destType \in {"Manual Address Entry", "My Other Wallets"},
          amount \in Amounts, sent \in BOOLEAN :
            transferAsset(AddressOf(k), asset, destType, amount, sent)
    \/ \E k \in Keys, amount \in Amounts, allowanceEnough \in BOOLEAN, ok \in {"Yes", "No"},
          approved \in BOOLEAN, swapped \in BOOLEAN :
            swapToken(AddressOf(k), amount, allowanceEnough, ok, approved, swapped)
    \/ \E index \in 0..(MaxWallets - 1) : tuiSelect(index)
    \/ \E button \in {"SUBMIT", "CANCEL"}, to \in {External}, amount \in Amounts,
          token \in TuiTokens, sent \in BOOLEAN :
            tuiTransfer(button, to, amount, token, sent)

\* the dashboard of the TUI after unlockWallets succeeded
TuiUnlocked ==
    /\ app = "tui" /\ pc = "dashboard"
    /\ UnlockedVault
    /\ SESSION_PASSWORD = None
    /\ pwOrigin = "none"
    /\ encryptOrigin = "none"

FundsInit == (CliUnlocked \/ TuiUnlocked) /\ SessIdle /\ FundsIdle /\ IoIdle

Next == VaultNext

Spec == Init /\ [][Next]_vars

SpecSession == SessionInit /\ [][SessionNext]_vars

SpecDisk == Init /\ [][DiskNext]_vars

SpecBackup == Init /\ [][BackupNext]_vars

SpecPairing == SessionInit /\ [][PairingNext]_vars

SpecInstances == InstancesInit /\ [][InstancesNext]_vars

SpecReveal == SessionInit /\ [][RevealNext]_vars

SpecFunds == FundsInit /\ [][FundsNext]_vars

SpecHeadless == HeadlessInit /\ [][HeadlessNext]_vars

SpecWallets == WalletsInit /\ [][WalletsNext]_vars

\* ------------------------------------------------------------------------
\* Properties of the vault
\* ------------------------------------------------------------------------
RetryBudget == 3

\* C1: after an unlock attempt in which a record failed to decrypt under the
\* entered password, the key ring is empty (all-or-nothing).
C1_UnlockAllOrNothing == unlockResult = "failed" => DECRYPTED_WALLETS = <<>>

EncryptedMode == app = "cli" /\ pc = "menu" /\ ~encryptionDisabled /\ SESSION_PASSWORD # None

\* C2: in encrypted mode every record of the active file decrypts under the
\* session password.
C2_RecordsDecryptUnderSessionPassword ==
    EncryptedMode =>
        \A w \in Range(WALLETS_FILE.recs) : FromEncryptedJson(w.data, SESSION_PASSWORD) # Fail

\* C3: the records of the active file are all encrypted or all plain text.
C3_OneStorageMode ==
    \/ \A w \in Range(WALLETS_FILE.recs) : IsPlain(w)
    \/ \A w \in Range(WALLETS_FILE.recs) : ~IsPlain(w)

HasPlain(f) == \E w \in Range(f.recs) : IsPlain(w)

\* C4: whenever the program writes an active file that holds a plain-text
\* secret, the user has twice confirmed unencrypted mode and the persisted
\* encryptionDisabled flag is true.
C4_PlainOnlyWithConfirmedFlag ==
    [][(WALLETS_FILE' # WALLETS_FILE /\ HasPlain(WALLETS_FILE'))
          => (plainConfirmed' /\ SETTINGS_FILE')]_vars

\* C5: no record is encrypted under a password that a single-entry prompt
\* of create, import, rename, restore or toggle established.
C5_NewPasswordNeedsDoubleEntry == encryptOrigin # "single"

\* C6: a running process has seen fewer than three failed unlock attempts
\* (the third failure ends the process, so there is no fourth attempt).
C6_ThreeAttemptsThenExit == app # "off" => wrongAttempts < RetryBudget
Executed(id) == {i \in DOMAIN execLog : execLog[i].id = id}

Responded(id) == {i \in DOMAIN responses : responses[i].id = id}

ApprovedBy(e) ==
    \E a \in answers : a.inv = e.inv /\ a.id = e.id /\ a.prompt = "approve" /\ a.ans = "Yes"

\* C7: a request is signed, broadcast or answered only after the user said
\* Yes to the approval prompt raised for that same request, an approval
\* serves one execution only, and client.respond is called at most once per
\* requestId.
C7_ApprovedOnceAnsweredOnce ==
    /\ \A i \in DOMAIN execLog : ApprovedBy(execLog[i])
    /\ \A i \in DOMAIN responses : ApprovedBy(responses[i])
    /\ \A i, j \in DOMAIN execLog : execLog[i].inv = execLog[j].inv => i = j
    /\ \A id \in ReqIds : Cardinality(Responded(id)) <= 1

\* C8: whatever session_request events arrive, a redelivered requestId
\* included, the signing or broadcast operation runs at most once per
\* requestId.
C8_ExecutedAtMostOncePerRequestId ==
    \A id \in ReqIds : Cardinality(Executed(id)) <= 1

Rejections(as) == {a \in as : a.kind = "request" /\ a.ans = "No"}

\* C10: the step in which the user rejects a signing request (at either
\* prompt) calls client.respond with an error for that request id, and
\* leaves the session active and connectWallet pending.
C10_RejectionAnsweredSessionKept ==
    [][\A a \in Rejections(answers') \ Rejections(answers) :
          /\ \E i \in DOMAIN responses' :
                /\ i \notin DOMAIN responses
                /\ responses'[i].id = a.id
                /\ responses'[i].kind = "error"
          /\ session' = session
          /\ pc' = pc]_vars

FundMoving == {"transfer", "swap", "tuiTransfer"}

Confirmed(tx) == tx.prompts # <<>> /\ tx.prompts[Len(tx.prompts)].answer = "Yes"

\* C9: every transaction sent by transferAsset, swapToken or the TUI transfer
\* form was preceded by a Yes/No question about it answered Yes; nothing is
\* sent without an affirmative answer.
C9_LocalOperationsConfirmed ==
    \A i \in DOMAIN chainTxs : chainTxs[i].op \in FundMoving => Confirmed(chainTxs[i])

\* the event that started the handler invocation numbered inv
EventOf(inv) == events[inv]

NewAnswers == answers' \ answers

NewResponses == {responses'[i] : i \in DOMAIN responses' \ DOMAIN responses}

NewExecs == {execLog'[i] : i \in DOMAIN execLog' \ DOMAIN execLog}

MalformedTyped(req) ==
    /\ req.method \in {"eth_signTypedData", "eth_signTypedData_v4"}
    /\ ~JsonParse(req.typed).ok

\* C11: the step in which an approved typed-data request turns out to have a
\* payload that does not parse calls client.respond with an error for that
\* request id, sends no result, and leaves the session as it is.
C11_MalformedTypedDataAnswered ==
    [][\A a \in NewAnswers :
          (a.kind = "request" /\ a.ans = "Yes" /\ MalformedTyped(EventOf(a.inv).req))
          => /\ \E r \in NewResponses : r.id = a.id /\ r.kind = "error"
             /\ \A r \in NewResponses : r.kind # "result"
             /\ session' = session]_vars

NewApproves == {approveLog'[i] : i \in DOMAIN approveLog' \ DOMAIN approveLog}

OtherAddresses(k) == {AddressOf(w.key) : w \in {x \in Range(DECRYPTED_WALLETS) : x.key # k}}

\* C12: every account in the namespaces passed to client.approve is a pair
\* of a chain and the address of the wallet selected in the connectWallet
\* call that registered the handler; no other wallet's address appears.
C12_AccountsUseSelectedIdentity ==
    [][\A a \in NewApproves : \A n \in a.namespaces : \A i \in DOMAIN n.accounts :
          /\ Len(n.accounts[i]) = 2
          /\ n.accounts[i][2] = AddressOf(TaskOf(a.inv).signer)
          /\ n.accounts[i][2] \notin OtherAddresses(TaskOf(a.inv).signer)]_vars

C12_Witness ==
    /\ app = "cli"
    /\ Len(DECRYPTED_WALLETS) = 2
    /\ \E i \in DOMAIN approveLog :
          /\ approveLog[i].address = AddressOf("k2")
          /\ \E n \in approveLog[i].namespaces : Len(n.accounts) = 2

\* everything the peer listed under a namespace key, required or optional
Requested(params, key) ==
    {e \in params.requiredNamespaces \cup params.optionalNamespaces : e.key = key}

RequestedChains(params, key) ==
    UNION {IF e.hasChains THEN Range(e.chains) ELSE {} : e \in Requested(params, key)}

NegotiatedChains(n) == {n.accounts[i][1] : i \in DOMAIN n.accounts}

\* C13: for every namespace of an approved proposal the chains of the
\* negotiated accounts are exactly the chains the peer requested for that
\* namespace in requiredNamespaces and optionalNamespaces together.
C13_NegotiatedChainsAsRequested ==
    \A i \in DOMAIN approveLog : \A n \in approveLog[i].namespaces :
        NegotiatedChains(n) = RequestedChains(EventOf(approveLog[i].inv).params, n.key)

RequestedMethods(params, key) == UNION {e.methods : e \in Requested(params, key)}

RequestedEvents(params, key) == UNION {e.events : e \in Requested(params, key)}

\* C14: for every namespace of an approved proposal the negotiated methods
\* and the negotiated events are the unions of what the peer listed for that
\* namespace in requiredNamespaces and in optionalNamespaces.
C14_MethodsAndEventsAreUnion ==
    \A i \in DOMAIN approveLog : \A n \in approveLog[i].namespaces :
        /\ n.methods = RequestedMethods(EventOf(approveLog[i].inv).params, n.key)
        /\ n.events = RequestedEvents(EventOf(approveLog[i].inv).params, n.key)

VaultUntouched ==
    UNCHANGED <<app, attempts, WALLETS_FILE, TRASH_FILE, SETTINGS_FILE, DECRYPTED_WALLETS,
                SESSION_PASSWORD, encryptionDisabled, pwOrigin, encryptOrigin,
                plainConfirmed, wrongAttempts, unlockResult>>

\* C15: client.approve is called only in the step in which the user answers
\* Yes to the connection prompt of that proposal; a step in which the user
\* answers No makes no approve, respond, signing or sending call, changes no
\* vault or key-ring state, leaves the client's session as it is, and
\* resolves the promise of connectWallet (back at the main menu).
C15_ApproveOnlyOnYesRejectionIsInert ==
    [][/\ \A a \in NewApproves : \E ans \in NewAnswers :
             /\ ans.inv = a.inv /\ ans.id = a.id
             /\ ans.kind = "proposal" /\ ans.ans = "Yes"
       /\ \A ans \in NewAnswers : (ans.kind = "proposal" /\ ans.ans = "No")
             => /\ approveLog' = approveLog
                /\ responses' = responses
                /\ execLog' = execLog
                /\ session' = session
                /\ VaultUntouched
                /\ pc' = "menu"]_vars

C15_Witness ==
    /\ pc = "menu"
    /\ approveLog # <<>>
    /\ \E a \in answers : a.kind = "proposal" /\ a.ans = "No"

\* C16: a signing request whose session was deleted is cancelled: no
\* signature, broadcast or response is produced for a request whose topic is
\* not the topic of the client's live session, whatever the user answers at
\* its still-open prompt.
C16_DeletedSessionCancelsPending ==
    [][/\ \A e \in NewExecs : TaskOf(e.inv).topic = session.topic
       /\ \A r \in NewResponses : TaskOf(r.inv).topic = session.topic]_vars

\* C17: every response passed to client.respond carries the id and the topic
\* of the request event that caused it, and that topic is the topic of the
\* session that is live when the response is sent.
C17_ResponsesCorrelatedToLiveSession ==
    [][\A r \in NewResponses :
          /\ EventOf(r.inv).kind = "request"
          /\ r.id = EventOf(r.inv).id
          /\ r.topic = EventOf(r.inv).topic
          /\ r.topic = session.topic]_vars

IsSendTx(inv) == EventOf(inv).req.method = "eth_sendTransaction"

SendConfirmed(as, inv) ==
    \E a \in as : a.inv = inv /\ a.prompt = "send" /\ a.ans = "Yes"

C19_ReadableTextShownBeforeApproval ==
    \A a \in answers :
        LET req == EventOf(a.inv).req
        IN (/\ a.kind = "request" /\ a.prompt = "approve"
            /\ req.method = "personal_sign"
            /\ isHexString(req.message)
            /\ toUtf8String(req.message) # Fail)
           => toUtf8String(req.message) \in Range(a.shown)

\* C20: what personal_sign hands to the signer is the decoded byte sequence
\* when the payload is a hex string and the unchanged text when it is not;
\* for a hex payload neither the hex string nor its decoded text is signed.
C20_SignsBytesOfHexPayload ==
    \A i \in DOMAIN execLog : execLog[i].op = "signMessage"
        => LET message == EventOf(execLog[i].inv).req.message
           IN IF isHexString(message)
              THEN /\ execLog[i].data = <<"bytes", HexBytes[message]>>
                   /\ execLog[i].data # <<"text", message>>
                   /\ execLog[i].data # <<"text", toUtf8String(message)>>
              ELSE execLog[i].data = <<"text", message>>

C20_Witness ==
    /\ \E i \in DOMAIN execLog :
          /\ execLog[i].op = "signMessage"
          /\ execLog[i].data = <<"bytes", <<72, 101, 108, 108, 111>>>>
    /\ \E i \in DOMAIN execLog :
          /\ execLog[i].op = "signMessage"
          /\ execLog[i].data = <<"text", "Hello">>

\* C21: at most one paired session is active at a time: client.approve is
\* called only while the client has no approved session, so a further
\* session_proposal cannot lead to a second approved session.
C21_AtMostOneActiveSession ==
    [][NewApproves # {} => session.topic = None]_vars

\* the private key a record holds, encrypted or not
SecretOf(rec) == IF IsPlain(rec) THEN rec.privateKey ELSE rec.data.key

\* a step that took entry idx out of the trash file
TrashEntryLeaves(idx) ==
    /\ idx \in DOMAIN TRASH_FILE.recs
    /\ TRASH_FILE'.recs = RemoveAt(TRASH_FILE.recs, idx)

\* a step that put one more record into the trash file
TrashGrows ==
    /\ Len(TRASH_FILE'.recs) = Len(TRASH_FILE.recs) + 1
    /\ SubSeq(TRASH_FILE'.recs, 1, Len(TRASH_FILE.recs)) = TRASH_FILE.recs

\* C22: a restore whose record does not decrypt under the session password
\* still moves the record: the operation reports a warning, the key ring is
\* unchanged, the record is appended to the active file and is gone from the
\* trash file.
C22_RestoreMovesRecordWhenUnlockFails ==
    [][\A idx \in DOMAIN TRASH_FILE.recs :
          (/\ TrashEntryLeaves(idx)
           /\ FromEncryptedJson(TRASH_FILE.recs[idx].data, SESSION_PASSWORD') = Fail)
          => /\ outcome' = "warning"
             /\ DECRYPTED_WALLETS' = DECRYPTED_WALLETS
             /\ WALLETS_FILE'.recs = Append(WALLETS_FILE.recs, TRASH_FILE.recs[idx])
             /\ Len(TRASH_FILE'.recs) = Len(TRASH_FILE.recs) - 1]_vars

C22_Witness ==
    /\ outcome = "warning"
    /\ TRASH_FILE.exists /\ TRASH_FILE.recs = <<>>
    /\ \E w \in Range(WALLETS_FILE.recs) :
          /\ ~IsPlain(w)
          /\ FromEncryptedJson(w.data, SESSION_PASSWORD) = Fail
          /\ SecretOf(w) \notin {r.key : r \in Range(DECRYPTED_WALLETS)}

\* the entries of the two files are pairwise different records
NoDuplicates(active, trash) ==
    /\ \A i \in DOMAIN active, j \in DOMAIN active : i # j => active[i] # active[j]
    /\ \A i \in DOMAIN trash, j \in DOMAIN trash : i # j => trash[i] # trash[j]
    /\ Range(active) \cap Range(trash) = {}

\* C23: a delete or a restore (the steps that change the trash file) never
\* leaves a record both in the trash file and in the active file, nor twice in
\* either file, when the entries of the two files were different records
\* before the step.
C23_DeleteRestoreNeverDuplicate ==
    [][(/\ TRASH_FILE'.recs # TRASH_FILE.recs
        /\ NoDuplicates(WALLETS_FILE.recs, TRASH_FILE.recs))
       => NoDuplicates(WALLETS_FILE'.recs, TRASH_FILE'.recs)]_vars

C23_Witness ==
    /\ TRASH_FILE.exists /\ TRASH_FILE.recs = <<>>
    /\ Len(WALLETS_FILE.recs) = 2
    /\ NoDuplicates(WALLETS_FILE.recs, TRASH_FILE.recs)
    /\ outcome \in {"ok", "warning"}
    /\ Len(DECRYPTED_WALLETS) = 2

RingKeys(ring) == {w.key : w \in Range(ring)}

FileKeys(recs) == {SecretOf(w) : w \in Range(recs)}

\* C24: a delete followed by a restore with the right password is a round
\* trip: after the delete the identity is in neither the active file nor the
\* key ring and its record is in the trash; after the restore the record is
\* in the active file again and the key ring holds the original address.
C24_DeleteThenRestoreRoundTrip ==
    [][/\ TrashGrows =>
             \A k \in RingKeys(DECRYPTED_WALLETS) \ RingKeys(DECRYPTED_WALLETS') :
                 /\ k \notin FileKeys(WALLETS_FILE'.recs)
                 /\ k \in FileKeys(TRASH_FILE'.recs)
       /\ \A idx \in DOMAIN TRASH_FILE.recs :
             (/\ TrashEntryLeaves(idx)
              /\ FromEncryptedJson(TRASH_FILE.recs[idx].data, SESSION_PASSWORD') # Fail)
             => /\ TRASH_FILE.recs[idx] \in Range(WALLETS_FILE'.recs)
                /\ SecretOf(TRASH_FILE.recs[idx]) \in RingKeys(DECRYPTED_WALLETS')]_vars

\* C25: delete moves to the trash the record that holds the secret of the
\* identity it removes from the key ring, so a key ring and an active file
\* that described the same identities still do; display names may coincide.
C25_DeleteRemovesTheSelectedRecord ==
    [][TrashGrows =>
          /\ \A k \in RingKeys(DECRYPTED_WALLETS) \ RingKeys(DECRYPTED_WALLETS') :
                SecretOf(TRASH_FILE'.recs[Len(TRASH_FILE'.recs)]) = k
          /\ (RingKeys(DECRYPTED_WALLETS) = FileKeys(WALLETS_FILE.recs))
                => (RingKeys(DECRYPTED_WALLETS') = FileKeys(WALLETS_FILE'.recs))]_vars

\* a step of the menu that changed a display name in the key ring
RenameStep ==
    /\ app = "cli" /\ pc = "menu" /\ pc' = "menu"
    /\ DECRYPTED_WALLETS' # DECRYPTED_WALLETS
    /\ Len(DECRYPTED_WALLETS') = Len(DECRYPTED_WALLETS)
    /\ \A i \in DOMAIN DECRYPTED_WALLETS : DECRYPTED_WALLETS'[i].key = DECRYPTED_WALLETS[i].key

Count(recs, k) == Cardinality({i \in DOMAIN recs : SecretOf(recs[i]) = k})

NamesOf(recs, k) == {recs[i].name : i \in {j \in DOMAIN recs : SecretOf(recs[j]) = k}}

\* C26: rename changes only a display name: the active file afterwards holds
\* one record for each record it held before, with the same secret, and the
\* records of the other identities keep their names.
C26_RenameKeepsEveryRecord ==
    [][RenameStep =>
          /\ \A k \in Keys : Count(WALLETS_FILE'.recs, k) = Count(WALLETS_FILE.recs, k)
          /\ \A k \in Keys :
                (\A i \in DOMAIN DECRYPTED_WALLETS :
                    DECRYPTED_WALLETS[i].key = k
                    => DECRYPTED_WALLETS'[i].name = DECRYPTED_WALLETS[i].name)
                => NamesOf(WALLETS_FILE'.recs, k) = NamesOf(WALLETS_FILE.recs, k)]_vars

\* C27: the key ring holds at most one identity per address.
C27_OneIdentityPerAddress ==
    \A i \in DOMAIN DECRYPTED_WALLETS, j \in DOMAIN DECRYPTED_WALLETS :
        i # j => AddressOf(DECRYPTED_WALLETS[i].key) # AddressOf(DECRYPTED_WALLETS[j].key)

C29_ParseFailureChangesNothing ==
    [][~WALLETS_FILE.parses =>
          /\ outcome' = "error"
                => UNCHANGED <<DECRYPTED_WALLETS, WALLETS_FILE, TRASH_FILE, SETTINGS_FILE>>
          /\ app' = "tui" => pc' # "nowallets"
          /\ WALLETS_FILE'.parses => DECRYPTED_WALLETS # <<>>]_vars

\* C30: no copy of my_wallets.json handed to rclone or to the Drive upload
\* holds a private key in plain text.
C30_NoPlainKeyInBackup ==
    \A i \in DOMAIN uploaded.privateKeys : uploaded.privateKeys[i] = None

\* C31: showPrivateKey writes a private key to the terminal only when the
\* user selected an identity and answered 'Yes, Reveal' to the warning prompt
\* of that call, and the key written is the one of the selected identity;
\* Back or No writes no secret.
C31_RevealOnlyAfterConfirmation ==
    \A i \in DOMAIN terminal :
        /\ terminal[i].printed # None
              => /\ terminal[i].selected # BACK
                 /\ terminal[i].sure = "Yes, Reveal"
                 /\ AddressOf(terminal[i].printed) = terminal[i].selected
        /\ (terminal[i].selected = BACK \/ terminal[i].sure = "No")
              => terminal[i].printed = None

C31_Witness ==
    /\ \E i \in DOMAIN terminal : terminal[i].printed = "k2"
    /\ \E i \in DOMAIN terminal : terminal[i].sure = "No"
    /\ \E i \in DOMAIN terminal : terminal[i].selected = BACK

\* a step of connectWallet whose client.pair threw
PairFailed ==
    /\ pc = "menu"
    /\ session' # session
    /\ session'.uri # <<>>
    /\ ~session'.paired /\ session'.topic = None /\ ~session'.acked

\* C32: when client.pair fails, connectWallet is back at the main menu
\* without a proposal approved, a signature made or a response sent, and no
\* proposal reaches the client while it is unpaired; the URI typed at the
\* prompt and handed to client.pair always starts with wc:.
C32_PairFailureReturnsToIdle ==
    /\ [](session.uri # <<>> => StartsWith(session.uri, WcPrefix))
    /\ [][/\ (PairFailed
                 => /\ pc' = "menu"
                    /\ approveLog' = approveLog
                    /\ execLog' = execLog
                    /\ responses' = responses
                    /\ tasks' = tasks)
           /\ ((Len(events') > Len(events) /\ events'[Len(events')].kind = "proposal")
                 => session.paired)]_vars

C32_Witness ==
    /\ pc = "menu"
    /\ session.uri = BareUri
    /\ ~session.paired
    /\ events = <<>>

\* the handler invocations waiting at a Yes/No prompt
Prompting == {t \in tasks : t.stage \in {"approve", "send"}}

\* C33: while an approval prompt raised for one session event is unanswered,
\* no second approval prompt is open: at most one handler invocation waits at
\* a confirmation prompt.
C33_OnePromptAtATime == Cardinality(Prompting) <= 1

\* C34: a write of the active records file is derived from the content the
\* file has at the time of the write: every record the file held before the
\* write is still in it afterwards, so no update made between a mutation's
\* read and its write (by a second running instance) is lost.
C34_NoLostUpdate ==
    [][WALLETS_FILE' # WALLETS_FILE
         => \A k \in Keys :
               Count(WALLETS_FILE'.recs, k) >= Count(WALLETS_FILE.recs, k)]_vars

\* the session is ACTIVE: a proposal was approved and the peer acknowledged
Active == session.topic # None /\ session.acked

\* the session_request events that the step hands to the handler
NewRequests ==
    {events'[i] : i \in {j \in DOMAIN events' : j > Len(events) /\ events'[j].kind = "request"}}

\* C35: a session_request is prompted for and executed only while a session
\* is ACTIVE: the prompt of a request opens, and a signature, broadcast or
\* response for a request is made, only in a state where a proposal has been
\* approved and acknowledged and the session has not been deleted.
C35_RequestsOnlyWhileActive ==
    [][/\ NewRequests # {} => Active
       /\ NewExecs # {} => Active
       /\ NewResponses # {} => Active]_vars

\* how many records of the two files hold the key k
Stored(active, trash, k) == Count(active.recs, k) + Count(trash.recs, k)

\* C36: delete and restore never lose a record, also when they fail part
\* way: a step that changes the trash file leaves every record that was in
\* the active file or in the trash in one of the two files.
C36_DeleteRestoreLoseNoRecord ==
    [][TRASH_FILE' # TRASH_FILE
         => \A k \in Keys :
               Stored(WALLETS_FILE', TRASH_FILE', k) >= Stored(WALLETS_FILE, TRASH_FILE, k)]_vars

\* the mode the records of the active file are actually stored in
StoreMode(file) ==
    IF \A i \in DOMAIN file.recs : IsPlain(file.recs[i]) THEN "plain"
    ELSE IF \A i \in DOMAIN file.recs : ~IsPlain(file.recs[i]) THEN "encrypted"
    ELSE "mixed"

\* a step of toggleEncryption that converts the store: it is the only menu
\* operation that clears the session password, and the only one that asks
\* for a new password twice while wallets are loaded
ToggleStep ==
    /\ app = "cli" /\ pc = "menu" /\ pc' = "menu"
    /\ DECRYPTED_WALLETS # <<>>
    /\ DECRYPTED_WALLETS' = DECRYPTED_WALLETS
    /\ \/ SESSION_PASSWORD # None /\ SESSION_PASSWORD' = None
       \/ SESSION_PASSWORD = None /\ SESSION_PASSWORD' # None /\ pwOrigin' = "double"

\* C37: toggling the vault mode converts in the direction opposite to the
\* mode the store is actually in: an encrypted store becomes a plaintext
\* store and a plaintext store becomes an encrypted store (so toggling
\* twice returns to the original mode), after any sequence of vault
\* operations.
C37_ToggleFlipsTheStoreMode ==
    [][ToggleStep
         => /\ StoreMode(WALLETS_FILE) = "encrypted" => StoreMode(WALLETS_FILE') = "plain"
            /\ StoreMode(WALLETS_FILE) = "plain" => StoreMode(WALLETS_FILE') = "encrypted"]_vars

\* a request method that no branch of the handler serves
Unsupported(req) ==
    req.method \notin {"personal_sign", "eth_signTypedData", "eth_signTypedData_v4",
                       "eth_sendTransaction"}

\* C38: the step in which the user approves a request whose method is none
\* of personal_sign, eth_signTypedData* and eth_sendTransaction calls
\* client.respond with an error for that request id, so that the approved
\* request is not left without a response.
C38_UnsupportedMethodAnswered ==
    [][\A a \in NewAnswers :
          (a.kind = "request" /\ a.ans = "Yes" /\ Unsupported(EventOf(a.inv).req))
          => \E r \in NewResponses : r.id = a.id /\ r.kind = "error"]_vars

\* C39: an eth_sendTransaction request is broadcast on the chain it was
\* issued for: the network of every broadcast is the chain identifier
\* carried by the request's event.
C39_BroadcastOnTheRequestedChain ==
    \A i \in DOMAIN execLog :
        execLog[i].op = "sendTransaction"
            => execLog[i].network = EventOf(execLog[i].inv).req.chainId

====
